---- MODULE Spec2Model ----
(***************************************************************************)
(* A model of the search node (src/mcts/node.py), of the move-history      *)
(* ledger (src/board/record.py) and of the history planes of the network   *)
(* input (src/nn/feature.py).                                              *)
(*                                                                         *)
(* Python objects are records, numpy arrays and lists are functions over   *)
(* 0 .. n-1 (the source's own indices).  A method is an operator from the  *)
(* object before the call to the outcome of the call: the object after it, *)
(* the value returned, the exception raised and the text written to        *)
(* stderr.  Real numbers (values, policies) are counted in integer units.  *)
(***************************************************************************)
EXTENDS Integers, Sequences, FiniteSets, TLC

(***************************************************************************)
(* Sizes and input sets.                                                   *)
(***************************************************************************)

\* board.constant.MAX_RECORDS: the capacity of the ledger (scaled down).
MAX_RECORDS == 3

\* board.constant.PASS: the position that stands for a pass.
PASS == 0

\* board.stone.Stone
EMPTY == "EMPTY"
BLACK == "BLACK"
WHITE == "WHITE"

\* The moves a caller saves: colour, position, hash of the position reached.
\* A hash is a numpy uint64 already when the board hands it over, and the
\* ledger's array is uint64: storing it converts nothing.
SaveInputs ==
    { <<BLACK, 4, 2748>>,           \* 0xABC
      <<WHITE, 5, 3567>>,           \* 0xDEF
      <<WHITE, PASS, 2748>>,        \* a pass that repeats the position 0xABC
      <<BLACK, 6, 273>> }           \* 0x111

\* The hashes a caller asks about: the saved ones, the hash of an empty slot
\* and one that is never saved (0x999).
QueryHashes == {m[3] : m \in SaveInputs} \cup {0, 2457}

\* Move numbers a caller passes: below -MAX_RECORDS (IndexError), negative
\* (Python counts from the end), in range, and at or beyond the capacity.
MoveNumbers == {0 - MAX_RECORDS - 1, -1} \cup (0 .. MAX_RECORDS)

(***************************************************************************)
(* Python indexing of a sequence of length n.                              *)
(***************************************************************************)
InRange(i, n) == (0 - n) <= i /\ i < n

PyIndex(i, n) == IF i < 0 THEN i + n ELSE i

(***************************************************************************)
(* The outcome of a call.                                                  *)
(***************************************************************************)
NoRet == <<>>

Outcome(obj, ret, err, msg) == [obj |-> obj, ret |-> ret, err |-> err, msg |-> msg]

(***************************************************************************)
(* Record (src/board/record.py)                                            *)
(***************************************************************************)
RecordSlots == 0 .. (MAX_RECORDS - 1)

NewRecord ==
    [color      |-> [i \in RecordSlots |-> EMPTY],
     pos        |-> [i \in RecordSlots |-> PASS],
     hash_value |-> [i \in RecordSlots |-> 0]]

\* A clear that forgets the positions.
RecordClear_KeepsPos(r) ==
    Outcome([color      |-> [i \in RecordSlots |-> EMPTY],
             pos        |-> r.pos,
             hash_value |-> [i \in RecordSlots |-> 0]],
            NoRet, "", "")

RecordClear(r) ==
    Outcome([color      |-> [i \in RecordSlots |-> EMPTY],
             pos        |-> [i \in RecordSlots |-> PASS],
             hash_value |-> [i \in RecordSlots |-> 0]],
            NoRet, "", "")

\* A save whose capacity test is off by one (moves <= MAX_RECORDS).
RecordSave_OffByOne(r, moves, color, pos, hash) ==
    IF moves <= MAX_RECORDS
    THEN IF InRange(moves, MAX_RECORDS)
         THEN LET k == PyIndex(moves, MAX_RECORDS)
              IN  Outcome([color      |-> [r.color EXCEPT ![k] = color],
                           pos        |-> [r.pos EXCEPT ![k] = pos],
                           hash_value |-> [r.hash_value EXCEPT ![k] = hash]],
                          NoRet, "", "")
         ELSE Outcome(r, NoRet, "IndexError", "")
    ELSE Outcome(r, NoRet, "", "Cannot save move record.")

\* A save that records colour and position but not the hash.
RecordSave_DropsHash(r, moves, color, pos, hash) ==
    IF moves < MAX_RECORDS
    THEN IF InRange(moves, MAX_RECORDS)
         THEN LET k == PyIndex(moves, MAX_RECORDS)
              IN  Outcome([color      |-> [r.color EXCEPT ![k] = color],
                           pos        |-> [r.pos EXCEPT ![k] = pos],
                           hash_value |-> r.hash_value],
                          NoRet, "", "")
         ELSE Outcome(r, NoRet, "IndexError", "")
    ELSE Outcome(r, NoRet, "", "Cannot save move record.")

\* The three assignments happen in order; the first one raises when the
\* move number is below -MAX_RECORDS, before anything is written.
RecordSave(r, moves, color, pos, hash) ==
    IF moves < MAX_RECORDS
    THEN IF InRange(moves, MAX_RECORDS)
         THEN LET k == PyIndex(moves, MAX_RECORDS)
              IN  Outcome([color      |-> [r.color EXCEPT ![k] = color],
                           pos        |-> [r.pos EXCEPT ![k] = pos],
                           hash_value |-> [r.hash_value EXCEPT ![k] = hash]],
                          NoRet, "", "")
         ELSE Outcome(r, NoRet, "IndexError", "")
    ELSE Outcome(r, NoRet, "", "Cannot save move record.")

\* A scan that looks only at the slots a move was saved in.
RecordHasSameHash_SkipsEmpty(r, hash) ==
    Outcome(r, <<\E k \in RecordSlots : r.color[k] # EMPTY /\ r.hash_value[k] = hash>>, "", "")

RecordHasSameHash(r, hash) ==
    Outcome(r, <<\E k \in RecordSlots : r.hash_value[k] = hash>>, "", "")

RecordGet(r, moves) ==
    IF InRange(moves, MAX_RECORDS)
    THEN LET k == PyIndex(moves, MAX_RECORDS)
         IN  Outcome(r, <<r.color[k], r.pos[k], r.hash_value[k]>>, "", "")
    ELSE Outcome(r, NoRet, "IndexError", "")

RecordGetHashHistory(r) ==
    Outcome(r, <<r.hash_value>>, "", "")

(***************************************************************************)
(* MCTSNode (src/mcts/node.py)                                             *)
(*                                                                         *)
(* A policy map (a Python dict, iterated in insertion order) is a sequence *)
(* of <<position, policy>> pairs with distinct positions.  The numpy int32 *)
(* counters stay far below their width in every run checked here.          *)
(***************************************************************************)

\* MAX_ACTIONS = BOARD_SIZE ** 2 + 1: the width of every per-child array
\* (scaled down).
MAX_ACTIONS == 2

\* mcts.constant.NOT_EXPANDED: the child link of a child without a node.
NOT_EXPANDED == -1

PUCT_WEIGHT == 1

ActionSlots == 0 .. (MAX_ACTIONS - 1)

\* The policy maps a caller passes: one child; two children with different
\* and with equal priors (in both key orders); MAX_ACTIONS children; one
\* entry more than MAX_ACTIONS.
PolicyMaps ==
    { << <<10, 5>> >>,
      << <<10, 4>>, <<20, 6>> >>,
      << <<20, 5>>, <<10, 5>> >>,
      [k \in 1 .. MAX_ACTIONS |-> <<10 * k, 6 - k>>],
      [k \in 1 .. (MAX_ACTIONS + 1) |-> <<10 * k, 6 - k>>] }

\* Indices a caller passes: -1 (Python counts from the end), every slot,
\* and MAX_ACTIONS (IndexError).
Indices == -1 .. MAX_ACTIONS

\* Values a simulation backs up.
Values == {-1, 1}

\* A node of the pool, as a child link.
PoolIndices == {7}

\* Noise the search driver adds to a prior (it writes the attribute; the
\* node has no method for it).
NoiseValues == {2}

Zeros == [i \in ActionSlots |-> 0]

NewNode ==
    [node_visits           |-> 0,
     virtual_loss          |-> 0,
     node_value_sum        |-> 0,
     action                |-> Zeros,
     children_index        |-> Zeros,
     children_value        |-> Zeros,
     children_visits       |-> Zeros,
     children_policy       |-> Zeros,
     children_virtual_loss |-> Zeros,
     children_value_sum    |-> Zeros,
     noise                 |-> Zeros,
     num_children          |-> 0]

\* The loop of set_policy, from entry index + 1 of the map on.  Writing
\* slot MAX_ACTIONS raises, and num_children is then never assigned.
RECURSIVE SetPolicyLoop(_, _, _)
SetPolicyLoop(n, policy_map, index) ==
    IF index = Len(policy_map)
    THEN Outcome([n EXCEPT !.num_children = index], NoRet, "", "")
    ELSE IF index >= MAX_ACTIONS
         THEN Outcome(n, NoRet, "IndexError", "")
         ELSE SetPolicyLoop([n EXCEPT !.action[index] = policy_map[index + 1][1],
                                      !.children_policy[index] = policy_map[index + 1][2]],
                            policy_map, index + 1)

\* A set_policy that counts one child too few.
NodeSetPolicy_ShortCount(n, policy_map) ==
    LET out == SetPolicyLoop(n, policy_map, 0)
    IN  IF out.err = "" /\ out.obj.num_children > 0
        THEN Outcome([out.obj EXCEPT !.num_children = @ - 1], NoRet, "", "")
        ELSE out

NodeSetPolicy(n, policy_map) == SetPolicyLoop(n, policy_map, 0)

\* An expand that forgets to reset the visit counts of the children.
NodeExpand_KeepsVisits(n, policy) ==
    NodeSetPolicy([n EXCEPT !.node_visits = 0,
                            !.node_value_sum = 0,
                            !.virtual_loss = 0,
                            !.action = Zeros,
                            !.children_index = [i \in ActionSlots |-> NOT_EXPANDED],
                            !.children_value = Zeros,
                            !.children_virtual_loss = Zeros,
                            !.children_value_sum = Zeros,
                            !.noise = Zeros],
                  policy)

NodeExpand(n, policy) ==
    NodeSetPolicy([n EXCEPT !.node_visits = 0,
                            !.node_value_sum = 0,
                            !.virtual_loss = 0,
                            !.action = Zeros,
                            !.children_index = [i \in ActionSlots |-> NOT_EXPANDED],
                            !.children_value = Zeros,
                            !.children_visits = Zeros,
                            !.children_virtual_loss = Zeros,
                            !.children_value_sum = Zeros,
                            !.noise = Zeros],
                  policy)

\* The node's own counter is incremented before the array is indexed.
NodeAddVirtualLoss(n, index) ==
    LET n1 == [n EXCEPT !.virtual_loss = @ + 1]
    IN  IF InRange(index, MAX_ACTIONS)
        THEN Outcome([n1 EXCEPT !.children_virtual_loss[PyIndex(index, MAX_ACTIONS)] = @ + 1],
                     NoRet, "", "")
        ELSE Outcome(n1, NoRet, "IndexError", "")

HasKey(policy, pos) == \E k \in 1 .. Len(policy) : policy[k][1] = pos

Lookup(policy, pos) == policy[CHOOSE k \in 1 .. Len(policy) : policy[k][1] = pos][2]

\* The loop of update_policy, from child i on: a missing key raises and
\* leaves the children before i updated.
RECURSIVE UpdatePolicyLoop(_, _, _)
UpdatePolicyLoop(n, policy, i) ==
    IF i >= n.num_children
    THEN Outcome(n, NoRet, "", "")
    ELSE IF ~HasKey(policy, n.action[i])
         THEN Outcome(n, NoRet, "KeyError", "")
         ELSE UpdatePolicyLoop([n EXCEPT !.children_policy[i] = Lookup(policy, n.action[i])],
                               policy, i + 1)

\* An update_policy that skips the children the map has no entry for.
RECURSIVE UpdatePolicyLoop_Skips(_, _, _)
UpdatePolicyLoop_Skips(n, policy, i) ==
    IF i >= n.num_children
    THEN Outcome(n, NoRet, "", "")
    ELSE IF ~HasKey(policy, n.action[i])
         THEN UpdatePolicyLoop_Skips(n, policy, i + 1)
         ELSE UpdatePolicyLoop_Skips([n EXCEPT !.children_policy[i] = Lookup(policy, n.action[i])],
                                     policy, i + 1)

NodeUpdatePolicy_SkipsMissing(n, policy) == UpdatePolicyLoop_Skips(n, policy, 0)

\* An update_policy that looks every action up before it writes any policy.
NodeUpdatePolicy_AllOrNothing(n, policy) ==
    IF \E i \in 0 .. (n.num_children - 1) : ~HasKey(policy, n.action[i])
    THEN Outcome(n, NoRet, "KeyError", "")
    ELSE UpdatePolicyLoop(n, policy, 0)

NodeUpdatePolicy(n, policy) == UpdatePolicyLoop(n, policy, 0)

NodeSetLeafValue(n, index, value) ==
    IF InRange(index, MAX_ACTIONS)
    THEN Outcome([n EXCEPT !.children_value[PyIndex(index, MAX_ACTIONS)] = value], NoRet, "", "")
    ELSE Outcome(n, NoRet, "IndexError", "")

\* An update_child_value that does not give the virtual loss back.
NodeUpdateChildValue_KeepsLoss(n, index, value) ==
    IF InRange(index, MAX_ACTIONS)
    THEN LET k == PyIndex(index, MAX_ACTIONS)
         IN  Outcome([n EXCEPT !.children_value_sum[k] = @ + value,
                               !.children_visits[k] = @ + 1],
                     NoRet, "", "")
    ELSE Outcome(n, NoRet, "IndexError", "")

\* An update_child_value that stores the value instead of adding it.
NodeUpdateChildValue_StoresValue(n, index, value) ==
    IF InRange(index, MAX_ACTIONS)
    THEN LET k == PyIndex(index, MAX_ACTIONS)
         IN  Outcome([n EXCEPT !.children_value_sum[k] = value,
                               !.children_visits[k] = @ + 1,
                               !.children_virtual_loss[k] = @ - 1],
                     NoRet, "", "")
    ELSE Outcome(n, NoRet, "IndexError", "")

NodeUpdateChildValue(n, index, value) ==
    IF InRange(index, MAX_ACTIONS)
    THEN LET k == PyIndex(index, MAX_ACTIONS)
         IN  Outcome([n EXCEPT !.children_value_sum[k] = @ + value,
                               !.children_visits[k] = @ + 1,
                               !.children_virtual_loss[k] = @ - 1],
                     NoRet, "", "")
    ELSE Outcome(n, NoRet, "IndexError", "")

\* An update_node_value that does not give the virtual loss back.
NodeUpdateNodeValue_KeepsLoss(n, value) ==
    Outcome([n EXCEPT !.node_value_sum = @ + value,
                      !.node_visits = @ + 1],
            NoRet, "", "")

NodeUpdateNodeValue(n, value) ==
    Outcome([n EXCEPT !.node_value_sum = @ + value,
                      !.node_visits = @ + 1,
                      !.virtual_loss = @ - 1],
            NoRet, "", "")

\* np.argmax of a sequence of length len >= 1: a scan from the left that
\* moves on only to a strictly greater element.  gt[<<a, b>>] says that
\* element a is greater than element b.
RECURSIVE ArgmaxScan(_, _, _, _)
ArgmaxScan(gt, len, k, best) ==
    IF k >= len
    THEN best
    ELSE ArgmaxScan(gt, len, k + 1, IF gt[<<k, best>>] THEN k ELSE best)

NpArgmax(gt, len) == ArgmaxScan(gt, len, 1, 0)

(***************************************************************************)
(* calculate_pucb_value (mcts/pucb/pucb.py, modelled from section 4.3 of   *)
(* the specification).  The score of a child is                            *)
(*     q + PUCT_WEIGHT * p * sqrt(N) / (1 + n)                             *)
(* with q = w / n for a visited child and 0 for an unvisited one.  A score *)
(* is kept exact, as the pair of fractions <<q, u>> that stands for        *)
(* q + u * sqrt(N).                                                        *)
(***************************************************************************)
PucbScore(N, n, w, p) ==
    [q_num |-> IF n = 0 THEN 0 ELSE w,
     q_den |-> IF n = 0 THEN 1 ELSE n,
     u_num |-> PUCT_WEIGHT * p,
     u_den |-> 1 + n,
     root  |-> N]

CalculatePucbValue(node_visits, children_visits, value_sum, policy) ==
    [i \in ActionSlots |-> PucbScore(node_visits, children_visits[i], value_sum[i], policy[i])]

\* a > b for two scores under the same N >= 0, with positive denominators:
\* the sign of X + Y * sqrt(N), X and Y the differences of the q and u parts.
ScoreGreater(a, b) ==
    LET X == (a.q_num * b.q_den - b.q_num * a.q_den) * (a.u_den * b.u_den)
        Y == (a.u_num * b.u_den - b.u_num * a.u_den) * (a.q_den * b.q_den)
        N == a.root
    IN  IF Y = 0 \/ N = 0 THEN X > 0
        ELSE IF X >= 0 /\ Y > 0 THEN TRUE
        ELSE IF X <= 0 /\ Y < 0 THEN FALSE
        ELSE IF X > 0 THEN X * X > Y * Y * N
        ELSE Y * Y * N > X * X

PucbValues(n) ==
    CalculatePucbValue(n.node_visits + n.virtual_loss,
                       [i \in ActionSlots |-> n.children_visits[i] + n.children_virtual_loss[i]],
                       n.children_value_sum,
                       [i \in ActionSlots |-> n.children_policy[i] + n.noise[i]])

\* A selection that takes the argmax over the whole arrays.
NodeSelectNextAction_NoSlice(n) ==
    IF n.num_children = 0
    THEN Outcome(n, NoRet, "ValueError", "")
    ELSE LET pucb_values == PucbValues(n)
         IN  Outcome(n,
                     <<NpArgmax([p \in ActionSlots \X ActionSlots |->
                                    ScoreGreater(pucb_values[p[1]], pucb_values[p[2]])],
                                MAX_ACTIONS)>>,
                     "", "")

NodeSelectNextAction(n) ==
    IF n.num_children = 0
    THEN Outcome(n, NoRet, "ValueError", "")
    ELSE LET pucb_values == PucbValues(n)
         IN  Outcome(n,
                     <<NpArgmax([p \in ActionSlots \X ActionSlots |->
                                    ScoreGreater(pucb_values[p[1]], pucb_values[p[2]])],
                                n.num_children)>>,
                     "", "")

NodeGetNumChildren(n) == Outcome(n, <<n.num_children>>, "", "")

\* A best-move index that keeps the last of several maxima.
NodeGetBestMoveIndex_LastMax(n) ==
    IF n.num_children = 0
    THEN Outcome(n, NoRet, "ValueError", "")
    ELSE Outcome(n,
                 <<NpArgmax([p \in ActionSlots \X ActionSlots |->
                                n.children_visits[p[1]] >= n.children_visits[p[2]]],
                            n.num_children)>>,
                 "", "")

NodeGetBestMoveIndex(n) ==
    IF n.num_children = 0
    THEN Outcome(n, NoRet, "ValueError", "")
    ELSE Outcome(n,
                 <<NpArgmax([p \in ActionSlots \X ActionSlots |->
                                n.children_visits[p[1]] > n.children_visits[p[2]]],
                            n.num_children)>>,
                 "", "")

NodeGetBestMove(n) ==
    LET best == NodeGetBestMoveIndex(n)
    IN  IF best.err # ""
        THEN best
        ELSE Outcome(n, <<n.action[best.ret[1]]>>, "", "")

NodeGetChildMove(n, index) ==
    IF InRange(index, MAX_ACTIONS)
    THEN Outcome(n, <<n.action[PyIndex(index, MAX_ACTIONS)]>>, "", "")
    ELSE Outcome(n, NoRet, "IndexError", "")

NodeGetChildIndex(n, index) ==
    IF InRange(index, MAX_ACTIONS)
    THEN Outcome(n, <<n.children_index[PyIndex(index, MAX_ACTIONS)]>>, "", "")
    ELSE Outcome(n, NoRet, "IndexError", "")

NodeSetChildIndex(n, index, child_index) ==
    IF InRange(index, MAX_ACTIONS)
    THEN Outcome([n EXCEPT !.children_index[PyIndex(index, MAX_ACTIONS)] = child_index],
                 NoRet, "", "")
    ELSE Outcome(n, NoRet, "IndexError", "")

\* The search driver's write of node.noise[index].
NodeSetNoise(n, index, value) ==
    Outcome([n EXCEPT !.noise[index] = value], NoRet, "", "")

(***************************************************************************)
(* State.                                                                  *)
(*   node     the search node                                              *)
(*   calls    the number of calls made on the node                         *)
(*   before   the node before the last call when that is an expand or an   *)
(*            add_virtual_loss, and before the add_virtual_loss that a     *)
(*            last update_child_value follows                              *)
(*   sims     the simulations on the node: where each one is, the child it *)
(*            went down by and the value it backs up                       *)
(*   threads  the threads that run a simulation's three updates on the     *)
(*            node statement by statement                                  *)
(*   pool     the nodes of the pool that child links lead to               *)
(*   arrivals the simulations that arrive at a child of the node           *)
(*   tally    the update_child_value calls made since the last expand:     *)
(*            how many named each slot, and the sum of their values        *)
(*   record   the ledger                                                   *)
(*   board_moves   the board's move counter (board.moves)                  *)
(*   last     the last call: its name, arguments and outcome               *)
(*   prev     the call before the last one, kept while the last call is a  *)
(*            get, a clear or an update_child_value (the calls a law       *)
(*            relates to their predecessor)                                *)
(*   written  the hashes that save calls have written since the ledger     *)
(*            was created or last cleared                                  *)
(***************************************************************************)
VARIABLES node, calls, before, sims, threads, pool, arrivals, tally,
          record, board_moves, last, prev, written

vars == <<node, calls, before, sims, threads, pool, arrivals, tally,
          record, board_moves, last, prev, written>>

searchVars == <<threads, pool, arrivals, tally>>

nodeVars == <<node, calls, before, sims, searchVars>>

recordVars == <<record, board_moves, written>>

\* Simulations that may be in flight on the node at once, and the number
\* of simulations that may pass through the node between two expansions.
MaxSims == 2

MaxVisits == 2

Simulations == 1 .. MaxSims

Idle == [pc |-> "idle", index |-> 0, value |-> 0]

\* A thread that has not started its simulation.
ThreadIdle == [stmt |-> 0, loaded |-> FALSE, tmp |-> 0, index |-> 0, value |-> 0]

\* A simulation that has not arrived at the child yet.
ArrivalIdle == [pc |-> "start", index |-> 0, child |-> NOT_EXPANDED, expanded |-> FALSE]

NoTally == [count |-> Zeros, sum |-> Zeros]

Call(op, args, out) ==
    [op |-> op, args |-> args, ret |-> out.ret, err |-> out.err, msg |-> out.msg]

NoCall == [op |-> "init", args |-> <<>>, ret |-> NoRet, err |-> "", msg |-> ""]

Init ==
    /\ node = NewNode
    /\ calls = 0
    /\ before = NewNode
    /\ sims = [s \in Simulations |-> Idle]
    /\ threads = [t \in Simulations |-> ThreadIdle]
    /\ pool = [p \in PoolIndices |-> NewNode]
    /\ arrivals = [s \in Simulations |-> ArrivalIdle]
    /\ tally = NoTally
    /\ record = NewRecord
    /\ board_moves = 0
    /\ last = NoCall
    /\ prev = NoCall
    /\ written = {}

Clear ==
    LET out == RecordClear(record)
    IN  /\ record' = out.obj
        /\ last' = Call("clear", <<>>, out)
        /\ UNCHANGED <<nodeVars, board_moves>>
        /\ prev' = last
        /\ written' = {}

Save ==
    \E moves \in MoveNumbers, m \in SaveInputs :
        LET out == RecordSave(record, moves, m[1], m[2], m[3])
        IN  /\ record' = out.obj
            /\ last' = Call("save", <<moves, m[1], m[2], m[3]>>, out)
            /\ UNCHANGED <<nodeVars, board_moves>>
            /\ prev' = NoCall
            /\ written' = IF out.err = "" /\ out.msg = ""
                          THEN written \cup {m[3]}
                          ELSE written

HasSameHash ==
    \E hash \in QueryHashes :
        LET out == RecordHasSameHash(record, hash)
        IN  /\ record' = out.obj
            /\ last' = Call("has_same_hash", <<hash>>, out)
            /\ UNCHANGED <<nodeVars, board_moves>>
            /\ prev' = NoCall
            /\ UNCHANGED written

Get ==
    \E moves \in MoveNumbers :
        LET out == RecordGet(record, moves)
        IN  /\ record' = out.obj
            /\ last' = Call("get", <<moves>>, out)
            /\ UNCHANGED <<nodeVars, board_moves>>
            /\ prev' = last
            /\ UNCHANGED written

GetHashHistory ==
    LET out == RecordGetHashHistory(record)
    IN  /\ record' = out.obj
        /\ last' = Call("get_hash_history", <<>>, out)
        /\ UNCHANGED <<nodeVars, board_moves>>
        /\ prev' = NoCall
        /\ UNCHANGED written

NextRecord == Clear \/ Save \/ HasSameHash \/ Get \/ GetHashHistory

SpecRecord == Init /\ [][NextRecord]_vars

(***************************************************************************)
(* Calls on the node, in any order and with any argument, at most MaxCalls *)
(* of them.                                                                *)
(***************************************************************************)
MaxCalls == 3

Step(op, args, out) ==
    /\ node' = out.obj
    /\ calls' = calls + 1
    /\ last' = Call(op, args, out)
    /\ prev' = IF op = "update_child_value" THEN last ELSE NoCall
    /\ before' = IF op \in {"expand", "add_virtual_loss"} THEN node
                 ELSE IF op = "update_child_value" /\ last.op = "add_virtual_loss" THEN before
                 ELSE NewNode
    /\ UNCHANGED <<sims, searchVars, recordVars>>

Expand ==
    /\ calls < MaxCalls
    /\ \E policy \in PolicyMaps : Step("expand", <<policy>>, NodeExpand(node, policy))

SetPolicy ==
    /\ calls < MaxCalls
    /\ \E policy \in PolicyMaps : Step("set_policy", <<policy>>, NodeSetPolicy(node, policy))

AddVirtualLoss ==
    /\ calls < MaxCalls
    /\ \E index \in Indices : Step("add_virtual_loss", <<index>>, NodeAddVirtualLoss(node, index))

UpdatePolicy ==
    /\ calls < MaxCalls
    /\ \E policy \in PolicyMaps : Step("update_policy", <<policy>>, NodeUpdatePolicy(node, policy))

SetLeafValue ==
    /\ calls < MaxCalls
    /\ \E index \in Indices, value \in Values :
           Step("set_leaf_value", <<index, value>>, NodeSetLeafValue(node, index, value))

UpdateChildValue ==
    /\ calls < MaxCalls
    /\ \E index \in Indices, value \in Values :
           Step("update_child_value", <<index, value>>, NodeUpdateChildValue(node, index, value))

UpdateNodeValue ==
    /\ calls < MaxCalls
    /\ \E value \in Values : Step("update_node_value", <<value>>, NodeUpdateNodeValue(node, value))

GetNumChildren ==
    /\ calls < MaxCalls
    /\ Step("get_num_children", <<>>, NodeGetNumChildren(node))

GetBestMoveIndex ==
    /\ calls < MaxCalls
    /\ Step("get_best_move_index", <<>>, NodeGetBestMoveIndex(node))

GetBestMove ==
    /\ calls < MaxCalls
    /\ Step("get_best_move", <<>>, NodeGetBestMove(node))

GetChildMove ==
    /\ calls < MaxCalls
    /\ \E index \in Indices : Step("get_child_move", <<index>>, NodeGetChildMove(node, index))

GetChildIndex ==
    /\ calls < MaxCalls
    /\ \E index \in Indices : Step("get_child_index", <<index>>, NodeGetChildIndex(node, index))

SetChildIndex ==
    /\ calls < MaxCalls
    /\ \E index \in Indices, child_index \in PoolIndices :
           Step("set_child_index", <<index, child_index>>, NodeSetChildIndex(node, index, child_index))

SetNoise ==
    /\ calls < MaxCalls
    /\ \E index \in ActionSlots, value \in NoiseValues :
           Step("set_noise", <<index, value>>, NodeSetNoise(node, index, value))

Next ==
    \/ Expand
    \/ SetPolicy
    \/ AddVirtualLoss
    \/ UpdatePolicy
    \/ SetLeafValue
    \/ UpdateChildValue
    \/ UpdateNodeValue
    \/ GetNumChildren
    \/ GetBestMoveIndex
    \/ GetBestMove
    \/ GetChildMove
    \/ GetChildIndex
    \/ SetChildIndex
    \/ SetNoise

Spec == Init /\ [][Next]_vars

(***************************************************************************)
(* The search on one node.  A simulation is given a child, adds virtual    *)
(* loss on the way down and, on the way up, backs its value up into the    *)
(* child (update_child_value) and then into the node (update_node_value),  *)
(* once each.  Simulations interleave call by call.  The node is expanded  *)
(* or primed with set_policy only while no simulation is in flight on it,  *)
(* and is given noise before its first visit.                              *)
(***************************************************************************)
Quiescent == \A s \in Simulations : sims[s].pc = "idle"

FittingMaps == {policy \in PolicyMaps : Len(policy) <= MAX_ACTIONS}

SimStep(op, args, out, sims2) ==
    /\ node' = out.obj
    /\ sims' = sims2
    /\ last' = Call(op, args, out)
    /\ prev' = NoCall
    /\ UNCHANGED <<calls, before, searchVars, recordVars>>

SimExpand ==
    /\ Quiescent
    /\ \E policy \in FittingMaps : SimStep("expand", <<policy>>, NodeExpand(node, policy), sims)

SimSetPolicy ==
    /\ Quiescent
    /\ \E policy \in FittingMaps :
          SimStep("set_policy", <<policy>>, NodeSetPolicy(node, policy), sims)

SimSetNoise ==
    /\ Quiescent
    /\ node.node_visits = 0
    /\ \E index \in 0 .. (node.num_children - 1), value \in NoiseValues :
          SimStep("set_noise", <<index, value>>, NodeSetNoise(node, index, value), sims)

SimSelect ==
    SimStep("select_next_action", <<>>, NodeSelectNextAction(node), sims)

SimDescend ==
    \E s \in Simulations, index \in 0 .. (node.num_children - 1) :
        /\ sims[s].pc = "idle"
        /\ node.node_visits + node.virtual_loss < MaxVisits
        /\ SimStep("add_virtual_loss", <<index>>, NodeAddVirtualLoss(node, index),
                   [sims EXCEPT ![s] = [pc |-> "down", index |-> index, value |-> 0]])

SimUpdateChild ==
    \E s \in Simulations, value \in Values :
        /\ sims[s].pc = "down"
        /\ SimStep("update_child_value", <<sims[s].index, value>>,
                   NodeUpdateChildValue(node, sims[s].index, value),
                   [sims EXCEPT ![s] = [pc |-> "child_done", index |-> sims[s].index,
                                        value |-> value]])

SimUpdateNode ==
    \E s \in Simulations :
        /\ sims[s].pc = "child_done"
        /\ SimStep("update_node_value", <<sims[s].value>>,
                   NodeUpdateNodeValue(node, sims[s].value),
                   [sims EXCEPT ![s] = Idle])

SimBestMoveIndex ==
    SimStep("get_best_move_index", <<>>, NodeGetBestMoveIndex(node), sims)

SimBestMove ==
    SimStep("get_best_move", <<>>, NodeGetBestMove(node), sims)

NextSim ==
    \/ SimExpand
    \/ SimSetPolicy
    \/ SimSetNoise
    \/ SimSelect
    \/ SimDescend
    \/ SimUpdateChild
    \/ SimUpdateNode
    \/ SimBestMoveIndex
    \/ SimBestMove

SpecSim == Init /\ [][NextSim]_vars

(***************************************************************************)
(* The search on a node that the pool recycles: as above, but expand may   *)
(* be called at any time, also while simulations that added virtual loss   *)
(* on the node have not yet backed their value up.                         *)
(***************************************************************************)
ReuseExpand ==
    \E policy \in FittingMaps : SimStep("expand", <<policy>>, NodeExpand(node, policy), sims)

NextReuse == ReuseExpand \/ SimDescend \/ SimUpdateChild \/ SimUpdateNode

SpecReuse == Init /\ [][NextReuse]_vars

(***************************************************************************)
(* Simulations on threads.  The node takes no lock, and each of the eight  *)
(* augmented assignments of add_virtual_loss, update_child_value and       *)
(* update_node_value reads its target, computes, and writes it back: a     *)
(* thread may be preempted between the read and the write.  A thread runs  *)
(* the three calls of one simulation in order, for the child and the value *)
(* it was given.                                                           *)
(***************************************************************************)

\* The augmented assignments, in the order one simulation runs them:
\* node.py lines 78, 79 (add_virtual_loss), 112, 113, 114
\* (update_child_value), 123, 124, 125 (update_node_value).
Statements ==
    << [field |-> "virtual_loss",          per_child |-> FALSE, delta |-> 1,  by_value |-> FALSE],
       [field |-> "children_virtual_loss", per_child |-> TRUE,  delta |-> 1,  by_value |-> FALSE],
       [field |-> "children_value_sum",    per_child |-> TRUE,  delta |-> 0,  by_value |-> TRUE],
       [field |-> "children_visits",       per_child |-> TRUE,  delta |-> 1,  by_value |-> FALSE],
       [field |-> "children_virtual_loss", per_child |-> TRUE,  delta |-> -1, by_value |-> FALSE],
       [field |-> "node_value_sum",        per_child |-> FALSE, delta |-> 0,  by_value |-> TRUE],
       [field |-> "node_visits",           per_child |-> FALSE, delta |-> 1,  by_value |-> FALSE],
       [field |-> "virtual_loss",          per_child |-> FALSE, delta |-> -1, by_value |-> FALSE] >>

Finished == Len(Statements) + 1

\* The read half of statement k for child index.
LoadTarget(n, k, index) ==
    IF Statements[k].per_child THEN n[Statements[k].field][index] ELSE n[Statements[k].field]

\* The write half: the value read, changed, goes back into the target.
StoreTarget(n, k, index, value, read) ==
    LET new == read + (IF Statements[k].by_value THEN value ELSE Statements[k].delta)
    IN  IF Statements[k].per_child
        THEN [n EXCEPT ![Statements[k].field][index] = new]
        ELSE [n EXCEPT ![Statements[k].field] = new]

ThreadStep(op, obj, threads2) ==
    /\ node' = obj
    /\ threads' = threads2
    /\ last' = [op |-> op, args |-> <<>>, ret |-> NoRet, err |-> "", msg |-> ""]
    /\ prev' = NoCall
    /\ UNCHANGED <<calls, before, sims, pool, arrivals, tally, recordVars>>

\* The node is expanded before the first simulation goes through it.
ThreadExpand ==
    /\ last.op = "init"
    /\ \E policy \in FittingMaps : ThreadStep("expand", NodeExpand(node, policy).obj, threads)

\* A thread is given a child and a value and enters add_virtual_loss.
ThreadBegin ==
    \E t \in Simulations, index \in 0 .. (node.num_children - 1), value \in Values :
        /\ threads[t].stmt = 0
        /\ last.op # "init"
        /\ ThreadStep("begin", node,
                      [threads EXCEPT ![t] = [stmt |-> 1, loaded |-> FALSE, tmp |-> 0,
                                              index |-> index, value |-> value]])

ThreadLoad ==
    \E t \in Simulations :
        /\ threads[t].stmt \in 1 .. Len(Statements)
        /\ ~threads[t].loaded
        /\ ThreadStep("load", node,
                      [threads EXCEPT ![t].loaded = TRUE,
                                      ![t].tmp = LoadTarget(node, threads[t].stmt, threads[t].index)])

ThreadStore ==
    \E t \in Simulations :
        /\ threads[t].stmt \in 1 .. Len(Statements)
        /\ threads[t].loaded
        /\ ThreadStep("store",
                      StoreTarget(node, threads[t].stmt, threads[t].index, threads[t].value,
                                  threads[t].tmp),
                      [threads EXCEPT ![t].loaded = FALSE,
                                      ![t].tmp = 0,
                                      ![t].stmt = @ + 1])

NextThreads == ThreadExpand \/ ThreadBegin \/ ThreadLoad \/ ThreadStore

SpecThreads == Init /\ [][NextThreads]_vars

(***************************************************************************)
(* Simulations arriving at a child of the node.  An arriving simulation    *)
(* reads the child's link with get_child_index; when it reads              *)
(* NOT_EXPANDED it expands a node of the pool and links it with            *)
(* set_child_index; it then goes through the child's node and commits one  *)
(* visit there.  The node's methods take no lock and offer no              *)
(* compare-and-set: the read of the link and the expansion are two steps.  *)
(***************************************************************************)
ArriveStep(op, args, out, arrivals2, pool2) ==
    /\ node' = out.obj
    /\ arrivals' = arrivals2
    /\ pool' = pool2
    /\ last' = Call(op, args, out)
    /\ prev' = NoCall
    /\ UNCHANGED <<calls, before, sims, threads, tally, recordVars>>

\* The node is expanded before any simulation arrives at a child of it.
ArriveSetup ==
    /\ last.op = "init"
    /\ \E policy \in FittingMaps :
          ArriveStep("expand", <<policy>>, NodeExpand(node, policy), arrivals, pool)

\* A simulation reads the link of the child it was sent to; all arrive at
\* the same child.
ArriveRead ==
    \E s \in Simulations, index \in 0 .. (node.num_children - 1) :
        LET out == NodeGetChildIndex(node, index)
        IN  /\ last.op # "init"
            /\ arrivals[s].pc = "start"
            /\ \A u \in Simulations : arrivals[u].pc # "start" => arrivals[u].index = index
            /\ ArriveStep("get_child_index", <<index>>, out,
                          [arrivals EXCEPT ![s] = [pc |-> IF out.ret[1] = NOT_EXPANDED
                                                          THEN "expanding" ELSE "descending",
                                                   index |-> index,
                                                   child |-> out.ret[1],
                                                   expanded |-> FALSE]],
                          pool)

\* A simulation that read NOT_EXPANDED expands a node of the pool and links
\* it to the child.
ArriveExpand ==
    \E s \in Simulations, child_index \in PoolIndices, policy \in FittingMaps :
        /\ arrivals[s].pc = "expanding"
        /\ ArriveStep("set_child_index", <<arrivals[s].index, child_index>>,
                      NodeSetChildIndex(node, arrivals[s].index, child_index),
                      [arrivals EXCEPT ![s].pc = "descending",
                                       ![s].child = child_index,
                                       ![s].expanded = TRUE],
                      [pool EXCEPT ![child_index] = NodeExpand(@, policy).obj])

\* A simulation goes through the child's node: one visit committed there.
ArriveVisit ==
    \E s \in Simulations, value \in Values :
        LET child == pool[arrivals[s].child]
            down  == NodeAddVirtualLoss(child, 0).obj
            up    == NodeUpdateChildValue(down, 0, value).obj
        IN  /\ arrivals[s].pc = "descending"
            /\ ArriveStep("descend", <<value>>, Outcome(node, NoRet, "", ""),
                          [arrivals EXCEPT ![s].pc = "done"],
                          [pool EXCEPT ![arrivals[s].child] = NodeUpdateNodeValue(up, value).obj])

NextArrive == ArriveSetup \/ ArriveRead \/ ArriveExpand \/ ArriveVisit

SpecArrive == Init /\ [][NextArrive]_vars

(***************************************************************************)
(* Backups into an expanded node: expand, then update_child_value calls on *)
(* its children with any values, and get_best_move_index at any point      *)
(* after the expand.  At most MaxUpdates calls of expand and               *)
(* update_child_value are made.                                            *)
(***************************************************************************)
MaxUpdates == 4

TallyStep(op, args, out, calls2, tally2) ==
    /\ node' = out.obj
    /\ calls' = calls2
    /\ tally' = tally2
    /\ last' = Call(op, args, out)
    /\ prev' = NoCall
    /\ UNCHANGED <<before, sims, threads, pool, arrivals, recordVars>>

TallyExpand ==
    /\ calls < MaxUpdates
    /\ \E policy \in FittingMaps :
          TallyStep("expand", <<policy>>, NodeExpand(node, policy), calls + 1, NoTally)

TallyUpdate ==
    /\ calls < MaxUpdates
    /\ last.op # "init"
    /\ \E index \in 0 .. (node.num_children - 1), value \in Values :
          TallyStep("update_child_value", <<index, value>>,
                    NodeUpdateChildValue(node, index, value), calls + 1,
                    [count |-> [tally.count EXCEPT ![index] = @ + 1],
                     sum   |-> [tally.sum EXCEPT ![index] = @ + value]])

TallyBest ==
    /\ last.op # "init"
    /\ TallyStep("get_best_move_index", <<>>, NodeGetBestMoveIndex(node), calls, tally)

NextTally == TallyExpand \/ TallyUpdate \/ TallyBest

SpecTally == Init /\ [][NextTally]_vars

(***************************************************************************)
(* The node's properties.                                                  *)
(***************************************************************************)
Children(n) == 0 .. (n.num_children - 1)

\* The per-child statistics of slot j.
SlotOf(n, j) ==
    <<n.action[j], n.children_index[j], n.children_value[j], n.children_visits[j],
      n.children_policy[j], n.children_virtual_loss[j], n.children_value_sum[j], n.noise[j]>>

\* C1: add_virtual_loss(i) followed at once by update_child_value(i, v),
\* for any index i the arrays accept, leaves children_virtual_loss[i] as it
\* was before the two calls, children_visits[i] one higher and
\* children_value_sum[i] higher by v, and every other slot as it was;
\* neither call raises for a slot index.
C1_VirtualLossRoundTrip ==
    ( /\ last.op = "update_child_value"
      /\ prev.op = "add_virtual_loss"
      /\ prev.args[1] = last.args[1]
      /\ InRange(last.args[1], MAX_ACTIONS) )
    => LET k == PyIndex(last.args[1], MAX_ACTIONS)
           v == last.args[2]
       IN  /\ prev.err = "" /\ last.err = ""
           /\ node.children_virtual_loss[k] = before.children_virtual_loss[k]
           /\ node.children_visits[k] = before.children_visits[k] + 1
           /\ node.children_value_sum[k] = before.children_value_sum[k] + v
           /\ \A j \in ActionSlots \ {k} : SlotOf(node, j) = SlotOf(before, j)

\* C1 witness: the pair of calls on a child of an expanded node.
C1_Witness ==
    /\ last.op = "update_child_value"
    /\ prev.op = "add_virtual_loss"
    /\ prev.args[1] = last.args[1]
    /\ last.args = <<1, -1>>
    /\ before.num_children = 2
    /\ node.children_visits[1] = 1

\* The simulations that still hold virtual loss on the node, and on child j.
HoldingNode == {s \in Simulations : sims[s].pc \in {"down", "child_done"}}

HoldingChild(j) == {s \in Simulations : sims[s].pc = "down" /\ sims[s].index = j}

\* C2: when every simulation adds virtual loss once on the way down and
\* calls update_child_value and then update_node_value once on the way up,
\* virtual_loss counts the simulations that have not yet updated the node
\* and children_virtual_loss[j] those that went down by j and have not yet
\* updated the child; with no simulation in flight they are all 0.
C2_VirtualLossReleased ==
    /\ node.virtual_loss = Cardinality(HoldingNode)
    /\ \A j \in ActionSlots : node.children_virtual_loss[j] = Cardinality(HoldingChild(j))
    /\ Quiescent => ( /\ node.virtual_loss = 0
                      /\ \A j \in ActionSlots : node.children_virtual_loss[j] = 0 )

\* C2 witness: two simulations went down by the same child and both have
\* come back.
C2_Witness ==
    /\ Quiescent
    /\ last.op = "update_node_value"
    /\ node.node_visits = 2
    /\ node.children_visits[1] = 2

\* C3: after expand(policy) with at most MAX_ACTIONS entries, whatever the
\* node held before: num_children is the number of entries, action[i] and
\* children_policy[i] are the key and value of entry i, the node's visits,
\* virtual loss and value sum are 0, and in every slot visits, virtual
\* loss, value sum, value and noise are 0 and the child link NOT_EXPANDED.
C3_ExpandResets ==
    ( last.op = "expand" /\ Len(last.args[1]) <= MAX_ACTIONS )
    => LET policy == last.args[1]
       IN  /\ last.err = ""
           /\ node.num_children = Len(policy)
           /\ \A i \in 0 .. (Len(policy) - 1) :
                 /\ node.action[i] = policy[i + 1][1]
                 /\ node.children_policy[i] = policy[i + 1][2]
           /\ node.node_visits = 0
           /\ node.virtual_loss = 0
           /\ node.node_value_sum = 0
           /\ \A j \in ActionSlots :
                 /\ node.children_visits[j] = 0
                 /\ node.children_virtual_loss[j] = 0
                 /\ node.children_value_sum[j] = 0
                 /\ node.children_value[j] = 0
                 /\ node.noise[j] = 0
                 /\ node.children_index[j] = NOT_EXPANDED

\* C3 witness: a node that was expanded and visited is expanded again.
C3_Witness ==
    /\ last.op = "expand"
    /\ Len(last.args[1]) = 2
    /\ before.num_children >= 1
    /\ before.children_visits[0] = 1
    /\ node.action[1] = 20

\* C4: select_next_action leaves the node as it is; on a node with at
\* least one child it returns an index below num_children whose score no
\* child's score exceeds and which exceeds the score of every child before
\* it; called again in the same state it returns the same index.
C4_SelectFirstMaximum ==
    [][ last'.op = "select_next_action" =>
          /\ node' = node
          /\ node.num_children >= 1 =>
                LET r == last'.ret[1]
                    score == PucbValues(node)
                IN  /\ last'.err = ""
                    /\ r \in Children(node)
                    /\ \A j \in Children(node) : ~ScoreGreater(score[j], score[r])
                    /\ \A j \in 0 .. (r - 1) : ScoreGreater(score[r], score[j])
          /\ last.op = "select_next_action" => last'.ret = last.ret ]_vars

\* C4 witness: the selection returns child 0 of a one-child node although
\* the slot behind it, left over from an earlier policy, scores higher.
C4_Witness ==
    /\ last.op = "select_next_action"
    /\ node.num_children = 1
    /\ last.ret = <<0>>
    /\ ScoreGreater(PucbValues(node)[1], PucbValues(node)[0])

\* The scores are defined wherever the search selects: no count is negative.
PucbDefined ==
    /\ node.node_visits + node.virtual_loss >= 0
    /\ \A j \in ActionSlots : node.children_visits[j] + node.children_virtual_loss[j] >= 0

\* C5: on a node with at least one child get_best_move_index returns the
\* lowest index below num_children whose children_visits is maximal among
\* the children, 0 when no child was visited, and get_best_move returns
\* the action at that index.
IsBestIndex(n, r) ==
    /\ r \in Children(n)
    /\ \A j \in Children(n) : n.children_visits[j] <= n.children_visits[r]
    /\ \A j \in 0 .. (r - 1) : n.children_visits[j] < n.children_visits[r]

C5_BestMoveFirstMaximum ==
    /\ ( last.op = "get_best_move_index" /\ node.num_children >= 1 )
       => /\ last.err = ""
          /\ IsBestIndex(node, last.ret[1])
          /\ (\A j \in Children(node) : node.children_visits[j] = 0) => last.ret[1] = 0
    /\ ( last.op = "get_best_move" /\ node.num_children >= 1 )
       => /\ last.err = ""
          /\ \E r \in Children(node) : IsBestIndex(node, r) /\ last.ret[1] = node.action[r]

\* C5 witness: two children with the same non-zero visit count.
C5_Witness ==
    /\ last.op = "get_best_move_index"
    /\ node.num_children = 2
    /\ node.children_visits[0] = 1
    /\ node.children_visits[1] = 1
    /\ last.ret = <<0>>

\* C10: update_policy(policy) sets children_policy[i] to the entry of
\* action[i] for every child when the map has an entry for every child's
\* action, and raises KeyError when it lacks one.
C10_UpdatePolicy ==
    last.op = "update_policy" =>
        LET policy == last.args[1]
        IN  IF \A i \in Children(node) : \E k \in 1 .. Len(policy) : policy[k][1] = node.action[i]
            THEN /\ last.err = ""
                 /\ \A i \in Children(node) :
                       \E k \in 1 .. Len(policy) :
                           policy[k] = <<node.action[i], node.children_policy[i]>>
            ELSE last.err = "KeyError"

\* C10 witness: a map without the action of the second child.
C10_Witness ==
    /\ last.op = "update_policy"
    /\ node.num_children = 2
    /\ last.args[1] = << <<10, 5>> >>
    /\ last.err = "KeyError"

\* C11: expand(policy_map) with more than MAX_ACTIONS entries raises
\* nothing, reports the violation, and leaves num_children <= MAX_ACTIONS
\* with the first num_children action and children_policy slots taken from
\* the map in its order.
C11_Original ==
    ( last.op = "expand" /\ Len(last.args[1]) > MAX_ACTIONS )
    => LET policy == last.args[1]
       IN  /\ last.err = ""
           /\ last.msg # ""
           /\ node.num_children <= MAX_ACTIONS
           /\ \A i \in Children(node) :
                 /\ node.action[i] = policy[i + 1][1]
                 /\ node.children_policy[i] = policy[i + 1][2]

\* C11, what the code does: the write of slot MAX_ACTIONS raises IndexError
\* out of expand after every slot was filled, and num_children keeps the
\* count of the expansion before.
C11_Witness ==
    /\ last.op = "expand"
    /\ Len(last.args[1]) > MAX_ACTIONS
    /\ last.err = "IndexError"
    /\ last.msg = ""
    /\ before.num_children = 1
    /\ node.num_children = 1
    /\ node.action[1] = 20


\* The threads that have run their simulation to its end, and those of them
\* that went down by child j.
Completed == {t \in Simulations : threads[t].stmt = Finished}

CompletedBy(j) == {t \in Completed : threads[t].index = j}

\* C12: whatever the interleaving of the threads, once k simulations have
\* each completed add_virtual_loss(i), update_child_value(i, v) and
\* update_node_value(v) on a freshly expanded node and no other is under
\* way, node_visits is k, children_visits[i] is the number of them that
\* went down by i, and virtual_loss and every children_virtual_loss[i] are
\* back at 0.
C12_Original ==
    ( \A t \in Simulations : threads[t].stmt \in {0, Finished} )
    => /\ node.node_visits = Cardinality(Completed)
       /\ node.virtual_loss = 0
       /\ \A j \in ActionSlots :
             /\ node.children_visits[j] = Cardinality(CompletedBy(j))
             /\ node.children_virtual_loss[j] = 0

\* C12, what the code does: two threads have both completed a simulation
\* through child 0 and one increment of virtual_loss was lost, so that the
\* two decrements leave it at -1.
C12_Witness ==
    /\ Cardinality(CompletedBy(0)) = 2
    /\ node.virtual_loss = -1
    /\ node.node_visits = 2
    /\ node.children_visits[0] = 2


\* The simulations that performed the expansion of the child, and those
\* that committed their visit in pool node p.
Expanders == {s \in Simulations : arrivals[s].expanded}

Committed(p) == {s \in Simulations : arrivals[s].pc = "done" /\ arrivals[s].child = p}

\* C13: of the simulations that arrive at the same unexpanded child, at
\* most one performs the expansion, exactly one once any of them goes on
\* into the child, and every visit committed in the child's node is still
\* counted there (no second expand wiped it).
C13_Original ==
    /\ Cardinality(Expanders) <= 1
    /\ (\E s \in Simulations : arrivals[s].pc \in {"descending", "done"})
       => Cardinality(Expanders) = 1
    /\ \A p \in PoolIndices : pool[p].node_visits = Cardinality(Committed(p))

\* C13, what the code allows: both simulations read NOT_EXPANDED, both
\* expanded, and the second expand wiped the visit the first had committed.
C13_Witness ==
    /\ Cardinality(Expanders) = 2
    /\ \E s \in Simulations : arrivals[s].pc = "done" /\ pool[arrivals[s].child].node_visits = 0


\* The methods that take a child index.
PerChildOps ==
    {"add_virtual_loss", "set_leaf_value", "update_child_value",
     "get_child_move", "get_child_index", "set_child_index"}

\* C14: a per-child method called with an index outside [0, num_children),
\* negative or from num_children on, fails with an error and leaves the
\* node as it was.
C14_Original ==
    [][ ( last'.op \in PerChildOps /\ last'.args[1] \notin Children(node) )
        => ( last'.err # "" /\ node' = node ) ]_vars

\* C14, what the code does: set_leaf_value(1, 1) on a node with one child
\* raises nothing and writes the slot behind the last child.
C14_Witness ==
    /\ last.op = "set_leaf_value"
    /\ last.args = <<1, 1>>
    /\ last.err = ""
    /\ node.num_children = 1
    /\ node.children_value[1] = 1


\* C16: while every update_child_value and update_node_value follows its
\* own add_virtual_loss, the node being re-expanded at any time, also with
\* simulations in flight, virtual_loss and every children_virtual_loss[i]
\* are at least 0.
C16_Original ==
    /\ node.virtual_loss >= 0
    /\ \A i \in ActionSlots : node.children_virtual_loss[i] >= 0

\* C16, what the code does: a simulation went down by child 0, the node was
\* re-expanded, and the simulation's two updates took both counters to -1.
C16_Witness ==
    /\ Quiescent
    /\ last.op = "update_node_value"
    /\ node.node_visits = 1
    /\ node.virtual_loss = -1
    /\ node.children_virtual_loss[0] = -1


\* C17: after expand and any sequence of update_child_value(i, v) calls on
\* children of the node, children_visits[j] is the number of calls that
\* named j and children_value_sum[j] the sum of their values, 0 for a slot
\* never named, and get_best_move_index returns the lowest index among the
\* children that were named most often.
C17_TallyAndBest ==
    last.op # "init" =>
        /\ \A j \in ActionSlots :
              /\ node.children_visits[j] = tally.count[j]
              /\ node.children_value_sum[j] = tally.sum[j]
        /\ last.op = "get_best_move_index" =>
              /\ last.err = ""
              /\ last.ret[1] \in Children(node)
              /\ \A j \in Children(node) : tally.count[j] <= tally.count[last.ret[1]]
              /\ \A j \in 0 .. (last.ret[1] - 1) : tally.count[j] < tally.count[last.ret[1]]

\* C17 witness: update_child_value(0, 1), (1, -1), (1, 1) after an expand
\* with two entries, and get_best_move_index returns 1.
C17_Witness ==
    /\ last.op = "get_best_move_index"
    /\ last.ret = <<1>>
    /\ node.num_children = 2
    /\ tally.count[0] = 1 /\ tally.sum[0] = 1
    /\ tally.count[1] = 2 /\ tally.sum[1] = 0


\* get_child_index(i) answers NOT_EXPANDED for every slot of node n.
AllUnexpanded(n) ==
    \A i \in ActionSlots : NodeGetChildIndex(n, i).ret = <<NOT_EXPANDED>>

\* C18: get_child_index(i) returns NOT_EXPANDED from the node's
\* construction on, and again after every expand, until set_child_index is
\* called for slot i: a new node answers NOT_EXPANDED for the slot asked, an
\* expand makes every slot answer it, and a slot that answers it keeps
\* answering it through every call that is not a set_child_index on that
\* slot (set_policy included).
C18_Original ==
    [][ /\ ( last.op = "init" /\ last'.op = "get_child_index" /\ last'.err = "" )
           => last'.ret = <<NOT_EXPANDED>>
        /\ last'.op = "expand" => AllUnexpanded(node')
        /\ \A i \in ActionSlots :
              ( /\ NodeGetChildIndex(node, i).ret = <<NOT_EXPANDED>>
                /\ ~( /\ last'.op = "set_child_index"
                      /\ InRange(last'.args[1], MAX_ACTIONS)
                      /\ PyIndex(last'.args[1], MAX_ACTIONS) = i ) )
              => NodeGetChildIndex(node', i).ret = <<NOT_EXPANDED>> ]_vars

\* C18, what the code does: on a node that was constructed and given one
\* child by set_policy, get_child_index(0) returns 0, the index of a node
\* of the pool.
C18_Witness ==
    /\ calls = 2
    /\ last.op = "get_child_index"
    /\ last.args = <<0>>
    /\ last.ret = <<0>>
    /\ node.num_children = 1
    /\ node.action[0] = 10


\* Node m differs from node n in children_policy at most.
OnlyPolicyDiffers(n, m) == [m EXCEPT !.children_policy = n.children_policy] = n

\* C19 as stated: update_policy changes no field other than
\* children_policy, and when it raises, children_policy is unchanged too.
C19_Original ==
    [][ last'.op = "update_policy" =>
          /\ OnlyPolicyDiffers(node, node')
          /\ last'.err # "" => node'.children_policy = node.children_policy ]_vars

\* The children of n whose action policy has no entry for, and the number
\* of children update_policy gets through before it meets the first one.
Missing(n, policy) ==
    {i \in Children(n) : \A k \in 1 .. Len(policy) : policy[k][1] # n.action[i]}

Reached(n, policy) ==
    IF Missing(n, policy) = {} THEN n.num_children
    ELSE CHOOSE i \in Missing(n, policy) : \A j \in Missing(n, policy) : i <= j

\* C19 amended: update_policy changes no field other than children_policy.
\* It raises KeyError exactly when the map lacks the action of some child;
\* the children before the first such child then hold their new policy, and
\* that child, the children after it and the slots behind the children
\* hold what they held.
C19_PartialUpdate ==
    [][ last'.op = "update_policy" =>
          LET policy == last'.args[1]
          IN  /\ OnlyPolicyDiffers(node, node')
              /\ last'.err = IF Missing(node, policy) = {} THEN "" ELSE "KeyError"
              /\ \A i \in ActionSlots :
                    IF i < Reached(node, policy)
                    THEN \E k \in 1 .. Len(policy) :
                            policy[k] = <<node.action[i], node'.children_policy[i]>>
                    ELSE node'.children_policy[i] = node.children_policy[i] ]_vars

\* C19 witness: update_policy({10: 5}) on the node expanded with
\* {10: 4, 20: 6} raised KeyError for the second child after it gave the
\* first child its new policy.
C19_Witness ==
    /\ last.op = "update_policy"
    /\ last.args[1] = << <<10, 5>> >>
    /\ last.err = "KeyError"
    /\ node.num_children = 2
    /\ node.action[0] = 10 /\ node.action[1] = 20
    /\ node.children_policy[0] = 5 /\ node.children_policy[1] = 6


(***************************************************************************)
(* The ledger's properties.                                                *)
(***************************************************************************)
EmptyTriple == <<EMPTY, PASS, 0>>

SaveFailed == "Cannot save move record."

\* The last call was a save that wrote its triple.
Wrote(c) == c.op = "save" /\ c.err = "" /\ c.msg = ""

Holds(r, h) == \E k \in RecordSlots : RecordGet(r, k).ret[3] = h

\* C6: for every move number 0 <= m < MAX_RECORDS, a get(m) that follows a
\* save(m, color, pos, hash) returns exactly <<color, pos, hash>>; a save at
\* a move number >= MAX_RECORDS leaves colours, positions and hashes as they
\* were, raises nothing and reports the error on stderr.
C6_SaveThenGet ==
    [][ /\ ( /\ last'.op = "get"
             /\ last.op = "save"
             /\ last.args[1] = last'.args[1]
             /\ 0 <= last.args[1]
             /\ last.args[1] < MAX_RECORDS )
           => ( /\ Wrote(last)
                /\ last'.err = ""
                /\ last'.ret = <<last.args[2], last.args[3], last.args[4]>> )
        /\ ( last'.op = "save" /\ last'.args[1] >= MAX_RECORDS )
           => ( /\ record' = record
                /\ last'.err = ""
                /\ last'.msg = SaveFailed ) ]_vars

\* C6 witness: a get that returns the triple the call before it saved, in a
\* ledger whose next slot is still empty.
C6_Witness ==
    /\ last.op = "get"
    /\ prev.op = "save"
    /\ prev.args[1] = 1
    /\ last.args[1] = 1
    /\ last.ret = <<WHITE, 5, 3567>>
    /\ record.color[2] = EMPTY

\* C7 as stated: every hash a save has written since the last clear is
\* still found by has_same_hash.
C7_Original ==
    \A h \in written : RecordHasSameHash(record, h).ret[1]

\* C7 amended: has_same_hash(h) is true right after a save that wrote h, and
\* once true it turns false only by a clear or by a save that overwrites a
\* slot holding h with a different hash.
C7_TrueUntilOverwritten ==
    [][ /\ Wrote(last') => RecordHasSameHash(record', last'.args[4]).ret[1]
        /\ \A h \in QueryHashes :
              ( RecordHasSameHash(record, h).ret[1] /\ ~RecordHasSameHash(record', h).ret[1] )
              => \/ last'.op = "clear"
                 \/ /\ Wrote(last')
                    /\ record.hash_value[PyIndex(last'.args[1], MAX_RECORDS)] = h
                    /\ last'.args[4] # h ]_vars

\* C7 witness: a save has just overwritten the only slot that held an
\* earlier written hash.
C7_Witness ==
    /\ Wrote(last)
    /\ \E h \in written : ~RecordHasSameHash(record, h).ret[1]
    /\ RecordHasSameHash(record, last.args[4]).ret[1]

\* C8: has_same_hash(h) answers whether some slot, read with get, holds h;
\* it is true for 0 while a slot has never been written since the last
\* clear, and false for a non-zero hash that no save has written since.
C8_ScanWholeArray ==
    last.op = "has_same_hash" =>
        LET h == last.args[1]
            answer == last.ret[1]
        IN  /\ last.err = ""
            /\ answer <=> Holds(record, h)
            /\ (h = 0 /\ \E k \in RecordSlots : record.color[k] = EMPTY) => answer
            /\ (h # 0 /\ h \notin written) => ~answer

\* C8 witness: has_same_hash(0) answers true on a ledger with a saved move
\* and an empty slot.
C8_Witness ==
    /\ last.op = "has_same_hash"
    /\ last.args[1] = 0
    /\ last.ret[1]
    /\ written # {}
    /\ \E k \in RecordSlots : record.color[k] = EMPTY

\* C9: after clear(), whatever was saved before, get(i) returns the empty
\* triple for every 0 <= i < MAX_RECORDS.
C9_ClearEmpties ==
    /\ last.op = "clear" =>
          \A i \in RecordSlots : RecordGet(record, i) = Outcome(record, EmptyTriple, "", "")
    /\ ( last.op = "get" /\ prev.op = "clear" /\ last.args[1] \in RecordSlots )
          => last.ret = EmptyTriple

\* C9 witness: a clear right after a save that wrote a move.
C9_Witness ==
    /\ last.op = "clear"
    /\ Wrote(prev)
    /\ prev.args[3] # PASS

\* C15: a ledger call with a move number outside 0 <= m < MAX_RECORDS,
\* negative ones included, neither reads nor overwrites a slot: get(m)
\* fails with an error, and save(m, ...) leaves colours, positions and
\* hashes as they were.
C15_Original ==
    [][ /\ ( last'.op = "get" /\ last'.args[1] \notin RecordSlots )
           => last'.err # ""
        /\ ( last'.op = "save" /\ last'.args[1] \notin RecordSlots )
           => record' = record ]_vars

\* C15, what the code does: get(-1) raises nothing and returns the triple
\* of a move saved in the last slot.
C15_Witness ==
    /\ last.op = "get"
    /\ last.args[1] = -1
    /\ last.err = ""
    /\ last.ret[1] # EMPTY
    /\ last.ret = <<record.color[MAX_RECORDS - 1], record.pos[MAX_RECORDS - 1],
                    record.hash_value[MAX_RECORDS - 1]>>

(***************************************************************************)
(* generate_input_planes (src/nn/feature.py): the planes of the last five  *)
(* moves.  The board (board/go_board.py) is seen through what the function *)
(* uses of it: its move counter, its ledger, its on-board positions and    *)
(* the coordinate symmetries.                                              *)
(***************************************************************************)

\* range(5): the moves before the position that get a plane.
HISTORY_PLANES == 5

PlaneIndices == 0 .. (HISTORY_PLANES - 1)

\* board.onboard_pos: the positions of the intersections (PASS is none).
OnboardPos == {4, 5, 6}

\* The symmetries asked for: 0 is the identity, 1 mirrors the line.
Symmetries == {0, 1}

\* board.get_symmetrical_coordinate(pos, sym)
GetSymmetricalCoordinate(pos, sym) == IF sym = 0 THEN pos ELSE 10 - pos

\* Python values of the two types the function compares.
PyInt(x) == [type |-> "int", value |-> <<x>>]

PyTuple(t) == [type |-> "tuple", value |-> t]

\* a == b for a Python value a and an int b: a tuple never equals an int.
PyEqualsInt(a, b) == a.type = "int" /\ a.value = <<b>>

\* prev_moves (feature.py:34): PASS, or whatever Record.get returns.
PrevMoves(moves, r) ==
    [i \in PlaneIndices |->
        IF moves < i + 1 THEN PyInt(PASS) ELSE PyTuple(RecordGet(r, moves - i - 1).ret)]

\* The history and pass planes (feature.py:39-46); a pass plane is all ones
\* or all zeros and is kept as one number.
GenerateInputPlanes(moves, r, sym) ==
    IF \E i \in PlaneIndices : moves >= i + 1 /\ RecordGet(r, moves - i - 1).err # ""
    THEN Outcome(r, NoRet, "IndexError", "")
    ELSE LET prev_moves == PrevMoves(moves, r)
             is_pass(i) == moves > i + 1 /\ PyEqualsInt(prev_moves[i], PASS)
         IN  Outcome(r,
                     <<[history_planes |->
                           [i \in PlaneIndices |->
                               [pos \in OnboardPos |->
                                   IF is_pass(i) THEN 0
                                   ELSE IF PyEqualsInt(prev_moves[i],
                                                       GetSymmetricalCoordinate(pos, sym))
                                        THEN 1 ELSE 0]],
                        pass_planes |->
                           [i \in PlaneIndices |-> IF is_pass(i) THEN 1 ELSE 0],
                        read |->
                           {moves - i - 1 : i \in {j \in PlaneIndices : moves >= j + 1}}]>>,
                     "", "")

FeatureStep(op, args, out, moves2) ==
    /\ record' = out.obj
    /\ board_moves' = moves2
    /\ last' = Call(op, args, out)
    /\ prev' = NoCall
    /\ UNCHANGED <<nodeVars, written>>

\* The board is cleared for a game: the ledger is emptied and the move
\* counter set to the number of its first move.
FeatureNewGame ==
    /\ last.op = "init"
    /\ \E first \in {0, 1} : FeatureStep("clear", <<first>>, RecordClear(record), first)

\* The board plays a move: it saves it at the move counter and counts on.
FeaturePlay ==
    /\ last.op # "init"
    /\ board_moves < MAX_RECORDS
    /\ \E m \in SaveInputs :
          FeatureStep("save", <<board_moves, m[1], m[2], m[3]>>,
                      RecordSave(record, board_moves, m[1], m[2], m[3]), board_moves + 1)

FeaturePlanes ==
    /\ last.op # "init"
    /\ \E sym \in Symmetries :
          FeatureStep("generate_input_planes", <<sym>>,
                      GenerateInputPlanes(board_moves, record, sym), board_moves)

NextFeature == FeatureNewGame \/ FeaturePlay \/ FeaturePlanes

SpecFeature == Init /\ [][NextFeature]_vars

\* The (n+1)-th previous move is in the ledger: a move was saved at move
\* number board_moves - n - 1.
HasPrevMove(n) ==
    /\ board_moves - n - 1 \in RecordSlots
    /\ record.color[board_moves - n - 1] # EMPTY

\* C20: for every n in 0..4 whose (n+1)-th previous move is in the ledger,
\* history plane n has a 1 exactly at the on-board positions that the
\* symmetry maps to the position of that move, none when the move is a
\* pass, and pass plane n is all ones exactly when the move's position is
\* PASS; the ledger is read at move numbers in [0, board.moves) only.
C20_Original ==
    last.op = "generate_input_planes" =>
        LET planes == last.ret[1]
            sym == last.args[1]
        IN  /\ last.err = ""
            /\ planes.read \subseteq 0 .. (board_moves - 1)
            /\ \A n \in PlaneIndices :
                  HasPrevMove(n) =>
                     LET pos == RecordGet(record, board_moves - n - 1).ret[2]
                     IN  /\ planes.pass_planes[n] = 1 <=> pos = PASS
                         /\ \A q \in OnboardPos :
                               planes.history_planes[n][q] = 1
                               <=> ( pos # PASS /\ GetSymmetricalCoordinate(q, sym) = pos )

\* C20, what the code does: the last move was played at position 4 and the
\* one before it was a pass, and every history and pass plane is zero.
C20_Witness ==
    /\ last.op = "generate_input_planes"
    /\ last.err = ""
    /\ HasPrevMove(0) /\ record.pos[board_moves - 1] = 4
    /\ HasPrevMove(1) /\ record.pos[board_moves - 2] = PASS
    /\ \A n \in PlaneIndices :
          /\ last.ret[1].pass_planes[n] = 0
          /\ \A q \in OnboardPos : last.ret[1].history_planes[n][q] = 0

====
